---- MODULE Spec2Model ----
(***************************************************************************)
(* The RWECC ingestor: one pass over a fetched batch of incidents; each    *)
(* incident whose problem text contains "MVC" is time-normalised, enriched *)
(* by a two-request weather lookup and upserted into unified_incidents.    *)
(*                                                                         *)
(* The repository holds two programs of package main: src/main.go and      *)
(* src/unnamed/part_000.  They differ in the HTTP client of the weather    *)
(* lookup (part_000 sets a Timeout) and in the SQL statement (part_000     *)
(* also writes the jurisdiction, problem_detail and weather columns).      *)
(* The variable build says which of the two a run executes.                *)
(*                                                                         *)
(* Text is a sequence of one-character strings, so that substring search,  *)
(* concatenation and the timestamp layout are computed character by        *)
(* character as the code computes them.                                    *)
(***************************************************************************)
EXTENDS Integers, Sequences, FiniteSets, TLC

(***************************************************************************)
(* Bounds of the model.                                                    *)
(***************************************************************************)
\* incidents in one fetched batch
MaxBatch == 2
\* readings of the wall clock
MaxClock == 1
\* incidents in the batch of each of two concurrent runs
MaxConcurrentBatch == 2

\* a nil error or an unset text variable
Nil == "nil"
\* a nil pointer, a NULL column, an unset record variable
Null == [null |-> TRUE]

Runs == {"A", "B"}
Builds == {"main.go", "part_000"}

VARIABLES
    build,          \* run -> the program the run executes
    tzdata,         \* the host has the zone database (time.LoadLocation succeeds)
    clock,          \* wall clock, read by time.Now()
    table,          \* unified_incidents: a set of rows
    pc,             \* run -> where the run is: "off", "start", "fatal", "loop",
                    \*        "points", "hourly" (inside client.Do), "exec",
                    \*        "done"; "panicked" (the process died of a panic),
                    \*        "blocked" (client.Do never returns)
    remaining,      \* run -> incidents of the batch not yet ranged over; the
                    \*        batch's next incident is drawn when the loop reaches it
    incident,       \* run -> main's loop variable (saveToUnifiedDB's argument)
    parsedTime,     \* run -> saveToUnifiedDB's parsedTime
    pointsResp,     \* run -> what the weather authority did with the points request
    hourlyResp,     \* run -> what it did with the hourly request
    weatherData,    \* run -> getWeatherForIncident's result (Null: nil pointer)
    lookupErr,      \* run -> getWeatherForIncident's error (Nil: nil)
    sent,           \* run -> the requests the current lookup has sent, in order
    incidentsSaved, \* run -> main's incidentsSaved
    candidates,     \* run -> incidents of the batch that passed the filter so far
    failedWrites,   \* run -> calls of saveToUnifiedDB that returned an error so far
    execErr         \* run -> what the run's last saveToUnifiedDB returned (Nil: nil)

vars == <<build, tzdata, clock, table, pc, remaining, incident, parsedTime,
          pointsResp, hourlyResp, weatherData, lookupErr, sent,
          incidentsSaved, candidates, failedWrites, execErr>>

(***************************************************************************)
(* Text                                                                    *)
(***************************************************************************)
Digits == {"0", "1", "2", "3", "4", "5", "6", "7", "8", "9"}

DigitVal(c) ==
    CASE c = "0" -> 0 [] c = "1" -> 1 [] c = "2" -> 2 [] c = "3" -> 3
      [] c = "4" -> 4 [] c = "5" -> 5 [] c = "6" -> 6 [] c = "7" -> 7
      [] c = "8" -> 8 [] c = "9" -> 9

\* strings.Contains(s, substr)
Contains(s, substr) ==
    \E i \in 1..(Len(s) - Len(substr) + 1) :
        SubSeq(s, i, i + Len(substr) - 1) = substr

MVC == <<"M", "V", "C">>

(***************************************************************************)
(* Time Normalizer: time.ParseInLocation("2006-01-02 15:04:05.000", v, loc)*)
(***************************************************************************)
IsDigit(v, p) == p <= Len(v) /\ v[p] \in Digits

Lit(v, p, c) == p <= Len(v) /\ v[p] = c

\* the number written by the digits v[p..q]
RECURSIVE Atoi(_, _, _)
Atoi(v, p, q) ==
    IF q < p THEN 0 ELSE 10 * Atoi(v, p, q - 1) + DigitVal(v[q])

AllDigits(v, p, q) == \A i \in p..q : IsDigit(v, i)

IsLeap(year) == year % 4 = 0 /\ (year % 100 # 0 \/ year % 400 = 0)

DaysIn(month, year) ==
    IF month = 2 THEN (IF IsLeap(year) THEN 29 ELSE 28)
    ELSE IF month \in {4, 6, 9, 11} THEN 30 ELSE 31

\* The layout's elements in order: a four-digit year, two-digit month and
\* day, an hour of one or two digits, two-digit minute and second, a
\* separator and exactly three fraction digits, and no text after them;
\* then the range checks.  Null stands for a parse error.
ParseLayout(v) ==
    IF ~(AllDigits(v, 1, 4) /\ Lit(v, 5, "-") /\ AllDigits(v, 6, 7)
         /\ Lit(v, 8, "-") /\ AllDigits(v, 9, 10) /\ Lit(v, 11, " ")
         /\ IsDigit(v, 12))
    THEN Null
    ELSE
      LET hlen == IF IsDigit(v, 13) THEN 2 ELSE 1
          q == 12 + hlen
      IN  IF ~(Lit(v, q, ":") /\ AllDigits(v, q + 1, q + 2)
               /\ Lit(v, q + 3, ":") /\ AllDigits(v, q + 4, q + 5)
               /\ (Lit(v, q + 6, ".") \/ Lit(v, q + 6, ","))
               /\ AllDigits(v, q + 7, q + 9)
               /\ Len(v) = q + 9)
          THEN Null
          ELSE
            LET t == [year  |-> Atoi(v, 1, 4),
                      month |-> Atoi(v, 6, 7),
                      day   |-> Atoi(v, 9, 10),
                      hour  |-> Atoi(v, 12, q - 1),
                      min   |-> Atoi(v, q + 1, q + 2),
                      sec   |-> Atoi(v, q + 4, q + 5),
                      msec  |-> Atoi(v, q + 7, q + 9)]
            IN  IF /\ t.month \in 1..12
                   /\ t.hour \in 0..23
                   /\ t.min \in 0..59
                   /\ t.sec \in 0..59
                   /\ t.day \in 1..DaysIn(t.month, t.year)
                THEN t
                ELSE Null

\* time.LoadLocation(name): the location, or nil when the host has no zone
\* database (the error is discarded by the caller).
LoadLocation(name, hasZoneDB) == IF hasZoneDB THEN name ELSE Nil

\* time.ParseInLocation: an error for a value the layout rejects; for a
\* value it accepts, Date(..., loc), which panics on a nil location.
ParseInLocation(value, loc) ==
    LET t == ParseLayout(value)
    IN  IF t = Null THEN [kind |-> "error"]
        ELSE IF loc = Nil THEN [kind |-> "panic"]
        ELSE [kind |-> "time", civil |-> t, zone |-> loc]

\* saveToUnifiedDB's parsedTime: the parsed instant, time.Now() on a parse
\* error; the panic propagates.
NormalizeTime(value, hasZoneDB, now) ==
    LET p == ParseInLocation(value, LoadLocation("America/New_York", hasZoneDB))
    IN  IF p.kind = "error" THEN [kind |-> "now", at |-> now] ELSE p

(***************************************************************************)
(* The feed                                                                *)
(***************************************************************************)
TS0 == <<"2","0","2","4","-","0","3","-","0","1"," ",
         "1","4",":","3","0",":","0","0",".","0","0","0">>
\* not a date at all
TSBad == <<"n","o","t","-","a","-","d","a","t","e">>
\* the same text followed by the first word of an address
TSBad1 == TSBad \o <<" ", "1">>

AddrMain == <<"1"," ","M","A","I","N">>
AddrTail == <<"M","A","I","N">>

Inc(j, p, a, la, lo, ts) ==
    [Jurisdiction |-> j, Problem |-> p, Address |-> a,
     Lat |-> la, Long |-> lo, Timestamp |-> ts]

\* The incidents a feed response may hold.  Coordinates are in units of
\* 1e-5 degree.  The first two share timestamp and address and differ in
\* everything else; the last two differ in timestamp and address and agree
\* on the concatenation of the two.
Feed ==
    { Inc("RPD",  <<"M","V","C">>,             AddrMain, 3578012, -7863826, TS0),
      Inc("WCSO", <<"M","V","C"," ","P","I">>, AddrMain, 3578017, -7863826, TS0),
      Inc("RPD",  <<"F","I","R","E">>,         AddrMain, 3578012, -7863826, TS0),
      Inc("RPD",  <<"m","v","c">>,             AddrMain, 3578012, -7863826, TSBad),
      Inc("RPD",  <<"M","V","C">>,             AddrMain, 3578012, -7863826, TSBad),
      Inc("WCSO", <<"X","M","V","C">>,         AddrTail, 3578017, -7863826, TSBad1) }

(***************************************************************************)
(* Weather Enricher: getWeatherForIncident                                 *)
(***************************************************************************)
\* fmt's %.4f of a coordinate given in units of 1e-5 degree, in units of
\* 1e-4 degree
Round4(x) == IF x >= 0 THEN (x + 5) \div 10 ELSE -((5 - x) \div 10)

\* the points request's URL: host, resource, the two rounded coordinates
PointsURL(lat, lon) ==
    [host |-> "api.weather.gov", path |-> "points",
     lat |-> Round4(lat), lon |-> Round4(lon), query |-> ""]

\* the hourly request's URL: the forecast URL with "?units=us" appended
HourlyURL(forecastHourly) ==
    [host |-> forecastHourly, path |-> "", lat |-> 0, lon |-> 0,
     query |-> "units=us"]

UserAgent == "(patrolx, mtickle@gmail.com)"

Request(url) == [method |-> "GET", url |-> url, userAgent |-> UserAgent]

\* http.Client.Timeout in seconds; zero is Go's "no timeout", which is what
\* main.go's &http.Client{} has
TimeoutPart000 == 10
TimeoutMain == 0

ClientTimeout(b) == IF b = "part_000" THEN TimeoutPart000 ELSE TimeoutMain

\* What the weather authority may do with a request: not answer at all, or
\* answer with a status and a body that may be unreadable, not JSON, or a
\* JSON object.
Resp(t, st, rd, js, obj) ==
    [transport |-> t, status |-> st, readable |-> rd, json |-> js, body |-> obj]

Period(temp, wind, fc) ==
    [Temperature |-> temp, WindSpeed |-> wind, ShortForecast |-> fc,
     Icon |-> "icon"]

PointsBodies ==
    { [forecastHourly |-> ""], [forecastHourly |-> "gridpoints/RAH/hourly"] }

HourlyBodies ==
    { [periods |-> <<>>],
      [periods |-> <<Period(71, "5 mph", "Sunny")>>],
      [periods |-> <<Period(0, "", "")>>],
      [periods |-> <<Period(38, "5 to 10 mph", "Rain"),
                     Period(71, "5 mph", "Sunny")>>] }

Responses(bodies) ==
    { Resp("silent", 0, FALSE, FALSE, Null),
      Resp("error", 0, FALSE, FALSE, Null),
      Resp("ok", 503, TRUE, TRUE, Null),
      Resp("ok", 200, FALSE, FALSE, Null),
      Resp("ok", 200, TRUE, FALSE, Null) }
    \cup { Resp("ok", 200, TRUE, TRUE, b) : b \in bodies }

\* client.Do(req): an answer, an error, or no return at all.  A silent
\* server ends in an error once the client's Timeout has run out; a client
\* without Timeout waits for ever.
ClientDo(b, resp) ==
    IF resp.transport = "error" THEN "error"
    ELSE IF resp.transport = "silent"
         THEN (IF ClientTimeout(b) > 0 THEN "error" ELSE "blocked")
         ELSE "response"

\* the first half without the check of the forecast URL
PointsCheckNoURL(b, resp) ==
    IF ClientDo(b, resp) = "error" THEN "failed to fetch NWS points data"
    ELSE IF resp.status # 200 THEN "NWS points API returned non-200 status"
    ELSE IF ~resp.readable THEN "failed to read NWS points response body"
    ELSE IF ~resp.json THEN "failed to unmarshal NWS points JSON"
    ELSE Nil

\* The first half of getWeatherForIncident after client.Do returned:
\* the error it returns (Nil: it goes on to the hourly request).
PointsCheck(b, resp) ==
    IF ClientDo(b, resp) = "error" THEN "failed to fetch NWS points data"
    ELSE IF resp.status # 200 THEN "NWS points API returned non-200 status"
    ELSE IF ~resp.readable THEN "failed to read NWS points response body"
    ELSE IF ~resp.json THEN "failed to unmarshal NWS points JSON"
    ELSE IF resp.body.forecastHourly = ""
         THEN "NWS points response did not contain a forecast URL"
    ELSE Nil

\* The second half after client.Do returned: the (*WeatherData, error) pair.
HourlyCheck(b, resp) ==
    IF ClientDo(b, resp) = "error"
    THEN [data |-> Null, err |-> "failed to fetch NWS hourly data"]
    ELSE IF resp.status # 200
    THEN [data |-> Null, err |-> "NWS hourly API returned non-200 status"]
    ELSE IF ~resp.readable
    THEN [data |-> Null, err |-> "failed to read NWS hourly response body"]
    ELSE IF ~resp.json
    THEN [data |-> Null, err |-> "failed to unmarshal NWS hourly JSON"]
    ELSE IF Len(resp.body.periods) > 0
    THEN [data |-> resp.body.periods[1], err |-> Nil]
    ELSE [data |-> Null, err |-> "no weather periods returned from NWS"]

(***************************************************************************)
(* Record Merger and Upsert Writer: saveToUnifiedDB                        *)
(***************************************************************************)
Columns ==
    { "source", "source_id", "event_type", "status", "address", "latitude",
      "longitude", "timestamp", "details", "jurisdiction", "problem_detail",
      "weather_temp", "weather_wind_speed", "weather_forecast" }

\* a column's value: Null is SQL NULL
Val(x) == [v |-> x]

\* the key built from the problem text in the address's place
SourceIDFromProblem(inc) == inc.Timestamp \o <<" ">> \o inc.Problem

\* sourceID := incident.Timestamp + " " + incident.Address
sourceID(inc) == inc.Timestamp \o <<" ">> \o inc.Address

\* details: the map json.Marshal writes; a nil *WeatherData is JSON null
Details(inc, weather) == [raw_incident |-> inc, weather |-> weather]

\* sql.NullInt32 / sql.NullString as the code fills them
NullInt32(weather) ==
    IF weather # Null THEN [Int32 |-> weather.Temperature, Valid |-> TRUE]
    ELSE [Int32 |-> 0, Valid |-> FALSE]

\* the wind speed filled in and Valid left false
NullWindNotValid(weather) ==
    IF weather # Null THEN [String |-> weather.WindSpeed, Valid |-> FALSE]
    ELSE [String |-> "", Valid |-> FALSE]

NullWind(weather) ==
    IF weather # Null THEN [String |-> weather.WindSpeed, Valid |-> TRUE]
    ELSE [String |-> "", Valid |-> FALSE]

NullForecast(weather) ==
    IF weather # Null THEN [String |-> weather.ShortForecast, Valid |-> TRUE]
    ELSE [String |-> "", Valid |-> FALSE]

\* the driver's value of a sql.Null*: NULL unless Valid
DriverInt(n) == IF n.Valid THEN Val(n.Int32) ELSE Null
DriverString(n) == IF n.Valid THEN Val(n.String) ELSE Null

\* the columns the INSERT names
InsertColsMain ==
    { "source", "source_id", "event_type", "status", "address", "latitude",
      "longitude", "timestamp", "details" }

InsertColsPart000 ==
    { "source", "source_id", "event_type", "status", "address", "latitude",
      "longitude", "timestamp", "details",
      "jurisdiction", "problem_detail", "weather_temp", "weather_wind_speed",
      "weather_forecast" }

InsertCols(b) == IF b = "part_000" THEN InsertColsPart000 ELSE InsertColsMain

\* ON CONFLICT (source, source_id)
ConflictTarget(b) == { "source", "source_id" }

\* the columns DO UPDATE SET assigns
UpdateColsMain == { "details", "status" }

UpdateColsPart000 ==
    { "details", "status", "jurisdiction", "problem_detail", "weather_temp",
      "weather_wind_speed", "weather_forecast" }

UpdateCols(b) == IF b = "part_000" THEN UpdateColsPart000 ELSE UpdateColsMain

\* the row VALUES (...) proposes: the arguments of db.Exec in the columns
\* the INSERT names, NULL in the others
Excluded(b, inc, time, weather) ==
    LET args ==
          [ source |-> Val("RWECC"),
            source_id |-> Val(sourceID(inc)),
            event_type |-> Val("Vehicle Crash"),
            status |-> Val("active"),
            address |-> Val(inc.Address),
            latitude |-> Val(inc.Lat),
            longitude |-> Val(inc.Long),
            timestamp |-> Val(time),
            details |-> Val(Details(inc, weather)),
            jurisdiction |-> Val(inc.Jurisdiction),
            problem_detail |-> Val(inc.Problem),
            weather_temp |-> DriverInt(NullInt32(weather)),
            weather_wind_speed |-> DriverString(NullWind(weather)),
            weather_forecast |-> DriverString(NullForecast(weather)) ]
    IN  [c \in Columns |-> IF c \in InsertCols(b) THEN args[c] ELSE Null]

Conflicting(b, tbl, new) ==
    { row \in tbl : \A c \in ConflictTarget(b) : row[c] = new[c] }

DuplicateKey == "duplicate key value violates unique constraint"

\* a plain INSERT, with no ON CONFLICT clause
PlainInsert(b, tbl, new) ==
    IF Conflicting(b, tbl, new) = {}
    THEN [table |-> tbl \cup {new}, err |-> Nil]
    ELSE [table |-> tbl, err |-> DuplicateKey]

\* The statement against a table: the proposed row is inserted, or each row
\* it conflicts with keeps its columns but for those DO UPDATE SET assigns
\* (status = 'active' is the value the proposed row carries as well).
Upsert(b, tbl, new) ==
    IF Conflicting(b, tbl, new) = {}
    THEN [table |-> tbl \cup {new}, err |-> Nil]
    ELSE [table |->
            (tbl \ Conflicting(b, tbl, new))
            \cup { [c \in Columns |->
                      IF c \in UpdateCols(b) THEN new[c] ELSE row[c]] :
                   row \in Conflicting(b, tbl, new) },
          err |-> Nil]

\* what may make db.Exec fail whatever the statement
DBFailures == { "connection lost", "value rejected" }

\* db.Exec(sqlStatement, ...): the server or the connection fails and no row
\* changes, or the statement runs
Exec(b, tbl, new, failure) ==
    IF failure # Nil THEN [table |-> tbl, err |-> failure]
    ELSE Upsert(b, tbl, new)

\* the lookup's error returned instead of dropped
SaveOrReturnLookupError(b, tbl, inc, time, weather, lerr, failure) ==
    IF lerr # Nil THEN [table |-> tbl, err |-> lerr]
    ELSE Exec(b, tbl, Excluded(b, inc, time, weather), failure)

\* saveToUnifiedDB from the return of getWeatherForIncident on: the lookup's
\* error is logged and dropped, the payload and the columns are built from
\* weatherData, and the error of db.Exec is returned.
saveToUnifiedDB(b, tbl, inc, time, weather, lerr, failure) ==
    Exec(b, tbl, Excluded(b, inc, time, weather), failure)

(***************************************************************************)
(* main                                                                    *)
(***************************************************************************)
\* the marker matched in either case
IsCandidateAnyCase(inc) ==
    Contains(inc.Problem, MVC) \/ Contains(inc.Problem, <<"m", "v", "c">>)

\* strings.Contains(incident.Problem, "MVC")
IsCandidate(inc) == Contains(inc.Problem, MVC)

\* if err != nil { log } else { incidentsSaved++ }
Count(saved, err) == IF err = Nil THEN saved + 1 ELSE saved

StartupFailures ==
    { "Error connecting to database", "RWECC_URL must be set",
      "Error fetching data from API", "Error reading API response body",
      "Error unmarshalling JSON" }

Upd(f, r, x) == [f EXCEPT ![r] = x]

\* the locals of saveToUnifiedDB are gone when it returns
ClearLocals(r) ==
    /\ parsedTime' = Upd(parsedTime, r, Null)
    /\ pointsResp' = Upd(pointsResp, r, Null)
    /\ hourlyResp' = Upd(hourlyResp, r, Null)
    /\ weatherData' = Upd(weatherData, r, Null)
    /\ lookupErr' = Upd(lookupErr, r, Nil)
    /\ sent' = Upd(sent, r, <<>>)

\* main up to the loop: a fatal error ends the process, or the batch is
\* decoded and incidentsSaved := 0
Startup(r, w) ==
    /\ pc[r] = "start"
    /\ \/ /\ \E f \in StartupFailures : pc' = Upd(pc, r, "fatal")
          /\ UNCHANGED remaining
       \/ \E n \in 0..w.batch :
            /\ pc' = Upd(pc, r, "loop")
            /\ remaining' = Upd(remaining, r, n)
    /\ UNCHANGED <<build, tzdata, clock, table, incident, parsedTime,
                   pointsResp, hourlyResp, weatherData, lookupErr, sent,
                   incidentsSaved, candidates, failedWrites, execErr>>

\* One iteration of the loop up to the first blocking call: the filter; for
\* a candidate, saveToUnifiedDB up to client.Do of the points request.
LoopStep(r, w) ==
    /\ pc[r] = "loop"
    /\ remaining[r] > 0
    /\ remaining' = Upd(remaining, r, remaining[r] - 1)
    /\ \E inc \in w.feed :
         /\ incident' = Upd(incident, r, inc)
         /\ IF ~IsCandidate(inc)
            THEN UNCHANGED <<pc, parsedTime, sent, candidates>>
            ELSE LET t == NormalizeTime(inc.Timestamp, tzdata, clock)
                 IN
                  /\ candidates' = Upd(candidates, r, candidates[r] + 1)
                  /\ IF t.kind = "panic"
                     THEN /\ pc' = Upd(pc, r, "panicked")
                          /\ UNCHANGED <<parsedTime, sent>>
                     ELSE /\ parsedTime' = Upd(parsedTime, r, t)
                          /\ sent' = Upd(sent, r,
                                <<Request(PointsURL(inc.Lat, inc.Long))>>)
                          /\ pc' = Upd(pc, r, "points")
    /\ UNCHANGED <<build, tzdata, clock, table, pointsResp, hourlyResp,
                   weatherData, lookupErr, incidentsSaved, failedWrites,
                   execErr>>

\* client.Do of the points request returns, or never does; on success the
\* lookup goes on to client.Do of the hourly request.
PointsReturn(r, w) ==
    /\ pc[r] = "points"
    /\ \E resp \in w.points :
         /\ pointsResp' = Upd(pointsResp, r, resp)
         /\ IF ClientDo(build[r], resp) = "blocked"
            THEN /\ pc' = Upd(pc, r, "blocked")
                 /\ UNCHANGED <<lookupErr, sent>>
            ELSE IF PointsCheck(build[r], resp) # Nil
            THEN /\ lookupErr' = Upd(lookupErr, r, PointsCheck(build[r], resp))
                 /\ pc' = Upd(pc, r, "exec")
                 /\ UNCHANGED sent
            ELSE /\ sent' = Upd(sent, r, Append(sent[r],
                              Request(HourlyURL(resp.body.forecastHourly))))
                 /\ pc' = Upd(pc, r, "hourly")
                 /\ UNCHANGED lookupErr
    /\ UNCHANGED <<build, tzdata, clock, table, remaining, incident,
                   parsedTime, hourlyResp, weatherData, incidentsSaved,
                   candidates, failedWrites, execErr>>

\* client.Do of the hourly request returns, or never does.
HourlyReturn(r, w) ==
    /\ pc[r] = "hourly"
    /\ \E resp \in w.hourly :
         /\ hourlyResp' = Upd(hourlyResp, r, resp)
         /\ IF ClientDo(build[r], resp) = "blocked"
            THEN /\ pc' = Upd(pc, r, "blocked")
                 /\ UNCHANGED <<lookupErr, weatherData>>
            ELSE /\ weatherData' =
                      Upd(weatherData, r, HourlyCheck(build[r], resp).data)
                 /\ lookupErr' =
                      Upd(lookupErr, r, HourlyCheck(build[r], resp).err)
                 /\ pc' = Upd(pc, r, "exec")
    /\ UNCHANGED <<build, tzdata, clock, table, remaining, incident,
                   parsedTime, pointsResp, sent, incidentsSaved, candidates,
                   failedWrites, execErr>>

\* The rest of saveToUnifiedDB and of the iteration: db.Exec runs, and main
\* counts the incident unless saveToUnifiedDB returned an error.
Save(r) ==
    /\ pc[r] = "exec"
    /\ \E failure \in DBFailures \cup {Nil} :
         LET res == saveToUnifiedDB(build[r], table, incident[r],
                                    parsedTime[r], weatherData[r],
                                    lookupErr[r], failure)
         IN  /\ table' = res.table
             /\ execErr' = Upd(execErr, r, res.err)
             /\ incidentsSaved' =
                  Upd(incidentsSaved, r, Count(incidentsSaved[r], res.err))
             /\ failedWrites' =
                  Upd(failedWrites, r,
                      IF res.err = Nil THEN failedWrites[r]
                      ELSE failedWrites[r] + 1)
    /\ pc' = Upd(pc, r, "loop")
    /\ ClearLocals(r)
    /\ UNCHANGED <<build, tzdata, clock, remaining, incident, candidates>>

\* the loop is over: the summary is logged and main returns
Summary(r) ==
    /\ pc[r] = "loop"
    /\ remaining[r] = 0
    /\ pc' = Upd(pc, r, "done")
    /\ UNCHANGED <<build, tzdata, clock, table, remaining, incident,
                   parsedTime, pointsResp, hourlyResp, weatherData, lookupErr,
                   sent, incidentsSaved, candidates, failedWrites, execErr>>

\* time passes
Tick ==
    /\ clock < MaxClock
    /\ clock' = clock + 1
    /\ UNCHANGED <<build, tzdata, table, pc, remaining, incident, parsedTime,
                   pointsResp, hourlyResp, weatherData, lookupErr, sent,
                   incidentsSaved, candidates, failedWrites, execErr>>

\* a step of run r in the world w: what the feed may hold, what the weather
\* authority may answer, how long a batch may be
RunStep(r, w) ==
    \/ Startup(r, w)
    \/ LoopStep(r, w)
    \/ PointsReturn(r, w)
    \/ HourlyReturn(r, w)
    \/ Save(r)
    \/ Summary(r)

World ==
    [feed |-> Feed, points |-> Responses(PointsBodies),
     hourly |-> Responses(HourlyBodies), batch |-> MaxBatch]

Next == Tick \/ \E r \in Runs : RunStep(r, World)

\* The state before any run has done anything: an empty table, and the
\* runs in `started` about to begin.
InitRuns(started, builds, zoneDB) ==
    /\ build \in [Runs -> builds]
    /\ \A r \in Runs \ started : build[r] = "part_000"
    /\ tzdata \in zoneDB
    /\ clock = 0
    /\ table = {}
    /\ pc = [r \in Runs |-> IF r \in started THEN "start" ELSE "off"]
    /\ remaining = [r \in Runs |-> 0]
    /\ incident = [r \in Runs |-> Null]
    /\ parsedTime = [r \in Runs |-> Null]
    /\ pointsResp = [r \in Runs |-> Null]
    /\ hourlyResp = [r \in Runs |-> Null]
    /\ weatherData = [r \in Runs |-> Null]
    /\ lookupErr = [r \in Runs |-> Nil]
    /\ sent = [r \in Runs |-> <<>>]
    /\ incidentsSaved = [r \in Runs |-> 0]
    /\ candidates = [r \in Runs |-> 0]
    /\ failedWrites = [r \in Runs |-> 0]
    /\ execErr = [r \in Runs |-> Nil]

\* one run of either program
Init == InitRuns({"A"}, Builds, BOOLEAN)

Spec == Init /\ [][Next]_vars

\* one run of part_000
InitPart000 == InitRuns({"A"}, {"part_000"}, BOOLEAN)

SpecPart000 == InitPart000 /\ [][Next]_vars

\* two runs of part_000 at once on a host with the zone database, with no
\* lock between them
InitConcurrent == InitRuns(Runs, {"part_000"}, {TRUE})

\* the world of the concurrent runs: the two incidents that share a key and
\* one that is filtered out; a weather authority whose points resource fails
\* or answers
ConcurrentWorld ==
    [feed |-> { i \in Feed : i.Timestamp = TS0 },
     points |-> { Resp("error", 0, FALSE, FALSE, Null),
                  Resp("ok", 200, TRUE, TRUE,
                       [forecastHourly |-> "gridpoints/RAH/hourly"]) },
     hourly |-> { Resp("ok", 200, TRUE, TRUE,
                       [periods |-> <<Period(71, "5 mph", "Sunny")>>]) },
     batch |-> MaxConcurrentBatch]

NextConcurrent == \E r \in Runs : RunStep(r, ConcurrentWorld)

SpecConcurrent == InitConcurrent /\ [][NextConcurrent]_vars

(***************************************************************************)
(* Properties                                                              *)
(***************************************************************************)
\* run r takes a step
Steps(r) == pc'[r] # pc[r] \/ remaining'[r] # remaining[r]

\* run r ranges over the next incident of its batch
Ranges(r) == pc[r] = "loop" /\ remaining'[r] # remaining[r]

\* saveToUnifiedDB of run r returns; it returns nil
Saves(r) == pc[r] = "exec" /\ pc'[r] = "loop"
Written(r) == Saves(r) /\ execErr'[r] = Nil

HasMVC(inc) ==
    \E i \in 1..Len(inc.Problem) - 2 :
        /\ inc.Problem[i] = "M"
        /\ inc.Problem[i + 1] = "V"
        /\ inc.Problem[i + 2] = "C"

\* the rows of tbl under the key of an incident with this timestamp and address
RowsOf(tbl, inc) ==
    { row \in tbl :
        /\ row.source = Val("RWECC")
        /\ row.source_id = Val(inc.Timestamp \o <<" ">> \o inc.Address) }

KeysOf(tbl) == { <<row.source, row.source_id>> : row \in tbl }

UniqueKeys(tbl) ==
    \A x, y \in tbl :
        (x.source = y.source /\ x.source_id = y.source_id) => x = y

\* a column's value mirrored from an optional snapshot
Mirror(weather, field) == IF weather = Null THEN Null ELSE Val(weather[field])

WeatherCols == { "weather_temp", "weather_wind_speed", "weather_forecast" }

\* a row written once and then updated by a write of the same timestamp and
\* address from other coordinates
Reingested(row) ==
    /\ row.address = Val(row.details.v.raw_incident.Address)
    /\ row.source_id = Val(row.details.v.raw_incident.Timestamp \o <<" ">>
                           \o row.details.v.raw_incident.Address)
    /\ row.latitude # Val(row.details.v.raw_incident.Lat)

\* C1: after every successful write the table holds at most one row per
\* (source, source_id); a write of an incident whose timestamp and address
\* are those of a stored row updates that row, adds no row and leaves the
\* keys as they were.
C1_OneRowPerKey ==
    [][\A r \in Runs :
         Written(r) =>
           /\ UniqueKeys(table')
           /\ (\E row \in table :
                 /\ row.details.v.raw_incident.Timestamp = incident[r].Timestamp
                 /\ row.details.v.raw_incident.Address = incident[r].Address)
              => /\ Cardinality(table') = Cardinality(table)
                 /\ KeysOf(table') = KeysOf(table)
                 /\ \E row \in RowsOf(table', incident[r]) :
                      row.details =
                        Val([raw_incident |-> incident[r],
                             weather |-> weatherData[r]])]_vars

C1_Witness ==
    /\ incidentsSaved["A"] = 2
    /\ Cardinality(table) = 1
    /\ \E row \in table : Reingested(row)

\* C2: a write of an incident whose (source, source_id) is already stored
\* gives details, status, jurisdiction, problem_detail and the three weather
\* columns the values of the new write and leaves address, latitude,
\* longitude, timestamp and event_type as they were.
C2_ConflictColumns ==
    [][\A r \in Runs :
         Written(r) =>
           \A old \in RowsOf(table, incident[r]) :
           \E new \in RowsOf(table', incident[r]) :
             /\ new.details = Val([raw_incident |-> incident[r],
                                   weather |-> weatherData[r]])
             /\ new.status = Val("active")
             /\ new.jurisdiction = Val(incident[r].Jurisdiction)
             /\ new.problem_detail = Val(incident[r].Problem)
             /\ new.weather_temp = Mirror(weatherData[r], "Temperature")
             /\ new.weather_wind_speed = Mirror(weatherData[r], "WindSpeed")
             /\ new.weather_forecast = Mirror(weatherData[r], "ShortForecast")
             /\ new.address = old.address
             /\ new.latitude = old.latitude
             /\ new.longitude = old.longitude
             /\ new.timestamp = old.timestamp
             /\ new.event_type = old.event_type]_vars

\* C3: whichever writes fail, the run is not cut short of its summary; a
\* failed write changes no row and the loop goes on with the rest of the
\* batch; a successful write is persisted; at the summary the saved count is
\* the number of candidates less the number of failed writes.
C3_WriteFailuresIsolated ==
    [][\A r \in Runs :
         /\ pc'[r] \notin {"panicked", "blocked"}
         /\ (Saves(r) /\ execErr'[r] # Nil)
            => /\ table' = table
               /\ incidentsSaved'[r] = incidentsSaved[r]
               /\ remaining'[r] = remaining[r]
         /\ Written(r)
            => /\ incidentsSaved'[r] = incidentsSaved[r] + 1
               /\ \E row \in RowsOf(table', incident[r]) :
                    row.details.v.raw_incident = incident[r]
         /\ pc'[r] = "done"
            => incidentsSaved'[r] = candidates'[r] - failedWrites'[r]]_vars

\* C4: the weather lookup and the write are reached only for an incident
\* whose problem text contains "MVC"; ranging over any other incident sends
\* no request, writes nothing and leaves the saved count.
C4_OnlyMVC ==
    [][\A r \in Runs :
         /\ pc'[r] \in {"points", "hourly", "exec"} => HasMVC(incident'[r])
         /\ sent'[r] # <<>> => HasMVC(incident'[r])
         /\ Saves(r) => HasMVC(incident[r])
         /\ (Ranges(r) /\ ~HasMVC(incident'[r]))
            => /\ pc'[r] = "loop"
               /\ sent'[r] = <<>>
               /\ table' = table
               /\ incidentsSaved'[r] = incidentsSaved[r]]_vars

C4_Witness ==
    /\ pc["A"] = "loop"
    /\ incident["A"] # Null
    /\ incident["A"].Problem = <<"m", "v", "c">>
    /\ remaining["A"] = 0
    /\ candidates["A"] = 1
    /\ incidentsSaved["A"] = 1
    /\ Cardinality(table) = 1

\* C5: in every row the three weather columns are all NULL or all non-NULL.
C5_WeatherAllOrNone ==
    \A row \in table :
        Cardinality({ c \in WeatherCols : row[c] = Null }) \in {0, 3}

C5_Witness ==
    \E row \in table :
        /\ Reingested(row)
        /\ row.weather_temp = Val(0)
        /\ row.weather_wind_speed = Val("")
        /\ row.weather_forecast = Val("")

\* C6: a lookup that failed leaves saveToUnifiedDB at the upsert with no
\* snapshot; the upsert then writes the incident with the three weather
\* columns NULL and the payload's weather null, and an error it returns is
\* db.Exec's, never the lookup's.
C6_LookupFailure ==
    [][\A r \in Runs :
         /\ lookupErr'[r] # Nil
            => pc'[r] = "exec" /\ weatherData'[r] = Null
         /\ (pc[r] = "exec" /\ lookupErr[r] # Nil /\ Steps(r))
            => /\ Saves(r)
               /\ execErr'[r] # Nil
                  => execErr'[r] \in DBFailures /\ table' = table
               /\ execErr'[r] = Nil
                  => \E row \in RowsOf(table', incident[r]) :
                       /\ \A c \in WeatherCols : row[c] = Null
                       /\ row.details.v.weather = Null
                       /\ row.details.v.raw_incident = incident[r]]_vars

C6_Witness ==
    /\ build["A"] = "part_000"
    /\ pc["A"] = "done"
    /\ incidentsSaved["A"] = 2
    /\ failedWrites["A"] = 0
    /\ \E row \in table :
         /\ Reingested(row)
         /\ row.details.v.weather = Null
         /\ \A c \in WeatherCols : row[c] = Null

\* C7: ranging over a candidate incident always goes on to the weather
\* lookup, whatever its timestamp string; a string the layout rejects is
\* replaced by the current instant.
C7_TimestampFallback ==
    [][\A r \in Runs :
         (Ranges(r) /\ HasMVC(incident'[r]))
         => /\ pc'[r] = "points"
            /\ ParseLayout(incident'[r].Timestamp) = Null
               => parsedTime'[r] = [kind |-> "now", at |-> clock]]_vars

\* C8: a remote call whose server never answers ends in a lookup failure,
\* and no run waits for ever on the weather authority.
C8_BoundedCalls ==
    [][\A r \in Runs :
         /\ pc'[r] # "blocked"
         /\ (pc[r] = "points" /\ Steps(r)
             /\ pointsResp'[r].transport = "silent")
            => pc'[r] = "exec" /\ lookupErr'[r] # Nil
         /\ (pc[r] = "hourly" /\ Steps(r)
             /\ hourlyResp'[r].transport = "silent")
            => pc'[r] = "exec" /\ lookupErr'[r] # Nil]_vars

\* C9: with two runs at once, no write ends in a duplicate-key error, no
\* key has two rows, and when both runs have written an incident of the
\* same timestamp and address there is exactly one row under its key.
C9_ConcurrentUpserts ==
    /\ \A r \in Runs : execErr[r] # DuplicateKey
    /\ UniqueKeys(table)
    /\ \A r1, r2 \in Runs :
         (/\ r1 # r2
          /\ \A r \in {r1, r2} :
               /\ pc[r] \in {"loop", "done"}
               /\ incidentsSaved[r] > 0
               /\ execErr[r] = Nil
               /\ HasMVC(incident[r])
          /\ incident[r1].Timestamp = incident[r2].Timestamp
          /\ incident[r1].Address = incident[r2].Address)
         => Cardinality(RowsOf(table, incident[r1])) = 1

C9_Witness ==
    /\ \A r \in Runs : pc[r] = "done" /\ incidentsSaved[r] = 1
    /\ incident["A"] # incident["B"]
    /\ Cardinality(table) = 1
    /\ \E row \in table : Reingested(row)

\* the answer the lookup needs from either request
Good(resp) ==
    /\ resp # Null
    /\ resp.transport = "ok"
    /\ resp.status = 200
    /\ resp.readable
    /\ resp.json

\* C10: a lookup sends at most two requests, each once; the hourly request
\* goes out only after a good points answer with a forecast URL, and to that
\* URL; an answer that is not good ends the lookup with no snapshot and no
\* further request; a snapshot is the first period of a good hourly answer;
\* every lookup starts with its own points request for the incident's
\* coordinates.
C10_LookupProtocol ==
    [][\A r \in Runs :
         /\ Len(sent'[r]) <= 2
         /\ Len(sent'[r]) <= Len(sent[r]) + 1
         /\ Len(sent'[r]) = 2
            => /\ sent'[r][1] # sent'[r][2]
               /\ Good(pointsResp'[r])
               /\ pointsResp'[r].body.forecastHourly # ""
               /\ sent'[r][2].url.host = pointsResp'[r].body.forecastHourly
               /\ sent'[r][2].url.query = "units=us"
         /\ lookupErr'[r] # Nil
            => weatherData'[r] = Null /\ pc'[r] = "exec"
         /\ (pc[r] = "points" /\ Steps(r) /\ pointsResp'[r].transport # "silent"
             /\ ~(Good(pointsResp'[r])
                  /\ pointsResp'[r].body.forecastHourly # ""))
            => /\ sent'[r] = sent[r]
               /\ lookupErr'[r] # Nil
         /\ (pc[r] = "hourly" /\ Steps(r) /\ hourlyResp'[r].transport # "silent"
             /\ ~(Good(hourlyResp'[r])
                  /\ Len(hourlyResp'[r].body.periods) > 0))
            => /\ sent'[r] = sent[r]
               /\ lookupErr'[r] # Nil
         /\ weatherData'[r] # Null
            => /\ Len(sent'[r]) = 2
               /\ Good(hourlyResp'[r])
               /\ Len(hourlyResp'[r].body.periods) > 0
               /\ weatherData'[r] = hourlyResp'[r].body.periods[1]
               /\ lookupErr'[r] = Nil
         /\ (Ranges(r) /\ pc'[r] = "points")
            => /\ Len(sent'[r]) = 1
               /\ sent'[r][1].method = "GET"
               /\ sent'[r][1].url.path = "points"
               /\ sent'[r][1].url.lat = Round4(incident'[r].Lat)
               /\ sent'[r][1].url.lon = Round4(incident'[r].Long)]_vars

C10_Witness ==
    /\ pc["A"] = "exec"
    /\ candidates["A"] = 2
    /\ Len(sent["A"]) = 2
    /\ Good(hourlyResp["A"])
    /\ Len(hourlyResp["A"].body.periods) = 2
    /\ weatherData["A"] = hourlyResp["A"].body.periods[1]
    /\ weatherData["A"] # hourlyResp["A"].body.periods[2]
    /\ \E row \in table :
         /\ row.latitude = Val(incident["A"].Lat)
         /\ row.longitude = Val(incident["A"].Long)

====
